---- MODULE Spec2Model ----
(***************************************************************************)
(* Model of src/javascript/signature/ecdsa_public_key_manager.ts:          *)
(*   - WrappedPublicKeyVerify.verify / tryVerification_ (the two-phase     *)
(*     prefix-then-raw dispatch over a primitive set), and                 *)
(*   - EcdsaPublicKeyManager (key validation before a verifier is built).  *)
(***************************************************************************)
EXTENDS Integers, Sequences, FiniteSets, TLC

VARIABLES
  primitiveSet, \* WrappedPublicKeyVerify.primitiveSet: entries in insertion order
  pc,           \* per verify call: the await the call is suspended at
  sigIn,        \* per verify call: the `signature` argument
  dataIn,       \* per verify call: the `data` argument
  phase,        \* per verify call: 1 = prefixed group, 2 = raw group
  idx,          \* per verify call: loop variable i of tryVerification_
  tv,           \* per verify call: how tryVerification_ completed
  result,       \* per verify call: how the promise of verify settled
  log,          \* per verify call: the candidate invocations, in order
  lookups,      \* per verify call: the lookups made on the primitive set
  km,           \* the EcdsaPublicKeyManager and the last call made on it
  wrapped       \* how PublicKeyVerifyWrapper.wrap went, and on which argument

wvars == <<primitiveSet, pc, sigIn, dataIn, phase, idx, tv, result, log, lookups>>

vars == <<wvars, km, wrapped>>

(***************************************************************************)
(* Bounds and domains                                                      *)
(***************************************************************************)
MaxEntries == 2

MaxVersion == 1

NON_RAW_PREFIX_SIZE == 5

RAW_PREFIX == <<>>

KeyId1 == <<1, 0, 0, 0, 1>>
KeyId2 == <<1, 0, 0, 0, 2>>
KeyId3 == <<1, 0, 0, 0, 3>>

\* Identifiers an entry of the set may carry, and the prefixes an input may carry
\* (KeyId3 names no entry).
EntryPrefixes == {RAW_PREFIX, KeyId1, KeyId2}
InputPrefixes == {KeyId1, KeyId2, KeyId3}

KeyStatuses == {"ENABLED", "DISABLED", "DESTROYED"}

\* Keys of the algorithm backend: key 7 signs with 2 bytes, key 9 with 7 bytes.
Keys == {7, 9}

Datas == {<<0>>, <<1>>}

Bodies == {<<>>, <<7>>, <<7, 0>>, <<7, 1>>}

Signatures == Bodies \cup {p \o b : p \in InputPrefixes, b \in Bodies}

\* An argument of verify: a Uint8Array with its bytes, or some other value.
U8(b) == [u8 |-> TRUE, bytes |-> b]
NotU8 == [u8 |-> FALSE, bytes |-> <<>>]

SigArgs == {U8(s) : s \in Signatures} \cup {NotU8}
DataArgs == {U8(d) : d \in Datas} \cup {NotU8}

Entries == [prefix : EntryPrefixes, status : KeyStatuses, key : Keys]

RECURSIVE SeqsUpTo(_, _)
SeqsUpTo(S, n) ==
  IF n = 0 THEN {<<>>}
  ELSE LET shorter == SeqsUpTo(S, n - 1)
       IN shorter \cup {Append(q, x) : q \in {r \in shorter : Len(r) = n - 1}, x \in S}

PrimitiveSets == SeqsUpTo(Entries, MaxEntries)

(***************************************************************************)
(* Collaborators outside the file                                          *)
(***************************************************************************)
\* The algorithm backend behind PublicKeyVerify.verify: the native signature of a
\* key on some data, and the verifier, which throws on a signature of the wrong
\* length (malformed encoding), and otherwise accepts exactly the native signature.
NativeSig(k, d) == IF k = 9 THEN KeyId1 \o <<7>> \o d ELSE <<k>> \o d

PrimVerify(k, s, d) ==
  IF Len(s) # Len(NativeSig(k, d)) THEN "throw"
  ELSE IF s = NativeSig(k, d) THEN "true" ELSE "false"

\* PrimitiveSet.getPrimitives / getRawPrimitives: the entries (here: their
\* positions in the set) carrying the identifier, in insertion order.
IndexSeq(n) == [i \in 1..n |-> i]

GetPrimitives(set, id) ==
  SelectSeq(IndexSeq(Len(set)), LAMBDA i : set[i].prefix = id)

GetRawPrimitives(set) == GetPrimitives(set, RAW_PREFIX)

\* Validators.requireUint8Array: throws unless the value is a Uint8Array.
RequireUint8Array(a) == a.u8

(***************************************************************************)
(* WrappedPublicKeyVerify                                                  *)
(***************************************************************************)
Callers == DOMAIN pc

\* Mutant of ValidInputs: the check of `data` (line 218) is dropped.
ValidInputsSignatureOnly(s, d) == RequireUint8Array(s)

\* verify, lines 217-218
ValidInputs(s, d) == RequireUint8Array(s) /\ RequireUint8Array(d)

\* Mutant of HasPrefix: >= for >.
HasPrefixInclusive(bytes) == Len(bytes) >= NON_RAW_PREFIX_SIZE

\* verify, line 219
HasPrefix(bytes) == Len(bytes) > NON_RAW_PREFIX_SIZE

\* verify, line 220
KeyIdOf(bytes) == SubSeq(bytes, 1, NON_RAW_PREFIX_SIZE)

\* verify, lines 222-223
RawSignature(bytes) == SubSeq(bytes, NON_RAW_PREFIX_SIZE + 1, Len(bytes))

\* Mutant of RawPhaseSignature: the raw group gets the remainder after the prefix.
RawPhaseSignatureStripped(bytes) ==
  SubSeq(bytes, NON_RAW_PREFIX_SIZE + 1, Len(bytes))

\* verify, line 236: the raw group is tried on the signature as given
RawPhaseSignature(bytes) == bytes

\* The signature verify hands to tryVerification_ in a phase (lines 226, 236).
PhaseSignature(ph, bytes) ==
  IF ph = 1 THEN RawSignature(bytes) ELSE RawPhaseSignature(bytes)

\* Mutant of PhasePrimitives: the second phase goes over the prefix group again
\* before the raw group.
PhasePrimitivesPrefixedAgain(set, ph, bytes) ==
  IF ph = 1 THEN GetPrimitives(set, KeyIdOf(bytes))
  ELSE IF HasPrefix(bytes)
  THEN GetPrimitives(set, KeyIdOf(bytes)) \o GetRawPrimitives(set)
  ELSE GetRawPrimitives(set)

\* The entries verify hands to tryVerification_ in a phase (lines 221, 235).
PhasePrimitives(set, ph, bytes) ==
  IF ph = 1 THEN GetPrimitives(set, KeyIdOf(bytes)) ELSE GetRawPrimitives(set)

\* Mutants of IsCandidate: no status check; only DESTROYED entries skipped; only
\* DISABLED entries skipped.
IsCandidateAnyStatus(entry) == TRUE

IsCandidateNotDestroyed(entry) == entry.status # "DESTROYED"

IsCandidateNotDisabled(entry) == entry.status # "DISABLED"

\* tryVerification_, lines 250-252
IsCandidate(entry) == entry.status = "ENABLED"

\* Mutant of LoopStart: the loop starts one entry late.
LoopStartSecond(prims) == 2

\* tryVerification_, line 249: the loop's first index (sequences count from 1)
LoopStart(prims) == 1

\* tryVerification_, lines 249-252: the first index from `from` on whose entry is
\* not skipped; Len(prims) + 1 when the loop runs out.
RECURSIVE NextTried(_, _, _)
NextTried(set, prims, from) ==
  IF from > Len(prims) THEN Len(prims) + 1
  ELSE IF IsCandidate(set[prims[from]]) THEN from
  ELSE NextTried(set, prims, from + 1)

\* Mutant of AfterCandidate: no catch around the candidate's verify.
AfterCandidateRethrow(out) ==
  CASE out = "true"  -> "return"
    [] out = "throw" -> "propagate"
    [] OTHER         -> "continue"

\* tryVerification_, lines 255-262: what the loop does with a candidate's outcome
AfterCandidate(out) ==
  CASE out = "true"  -> "return"
    [] out = "throw" -> "continue"
    [] OTHER         -> "continue"

\* verify, lines 224-229: isValid after the prefixed phase (a throw is caught)
PrefixedIsValid(t) == t = "true"

\* Mutant of ReturnsAfterPrefixed: no early return after the prefixed phase.
ReturnsAfterPrefixedNever(isValid) == FALSE

\* verify, lines 231-233
ReturnsAfterPrefixed(isValid) == isValid

\* Mutant of RunLoop: the data argument is kept in a field all calls write, so a
\* call reads what another call in progress has put there.
RunLoopSharedData(c, from, sofar) ==
  LET bytes  == sigIn[c].bytes
      prims  == PhasePrimitives(primitiveSet, phase[c], bytes)
      j      == NextTried(primitiveSet, prims, from)
      others == {o \in Callers \ {c} : pc[o] # "idle"}
      shared == IF others = {} THEN dataIn[c].bytes
                ELSE dataIn[CHOOSE o \in others : TRUE].bytes
  IN IF j <= Len(prims)
     THEN /\ idx' = [idx EXCEPT ![c] = j]
          /\ log' = [log EXCEPT ![c] = Append(sofar,
                       [e     |-> prims[j],
                        sig   |-> PhaseSignature(phase[c], bytes),
                        data  |-> shared,
                        phase |-> phase[c],
                        out   |-> "pending"])]
          /\ pc' = [pc EXCEPT ![c] = "awaitPrimitive"]
          /\ tv' = tv
     ELSE /\ idx' = [idx EXCEPT ![c] = j]
          /\ log' = [log EXCEPT ![c] = sofar]
          /\ pc' = [pc EXCEPT ![c] = "awaitTry"]
          /\ tv' = [tv EXCEPT ![c] = "false"]

\* tryVerification_ from index `from`, up to its next suspension: either the next
\* candidate's verify is called (and awaited), or the loop ends and false returns.
\* `sofar` is this call's invocations up to here.
RunLoop(c, from, sofar) ==
  LET bytes == sigIn[c].bytes
      prims == PhasePrimitives(primitiveSet, phase[c], bytes)
      j     == NextTried(primitiveSet, prims, from)
  IN IF j <= Len(prims)
     THEN /\ idx' = [idx EXCEPT ![c] = j]
          /\ log' = [log EXCEPT ![c] = Append(sofar,
                       [e     |-> prims[j],
                        sig   |-> PhaseSignature(phase[c], bytes),
                        data  |-> dataIn[c].bytes,
                        phase |-> phase[c],
                        out   |-> "pending"])]
          /\ pc' = [pc EXCEPT ![c] = "awaitPrimitive"]
          /\ tv' = tv
     ELSE /\ idx' = [idx EXCEPT ![c] = j]
          /\ log' = [log EXCEPT ![c] = sofar]
          /\ pc' = [pc EXCEPT ![c] = "awaitTry"]
          /\ tv' = [tv EXCEPT ![c] = "false"]

\* verify is called: lines 217-221, or 217-219 and 235, up to the first await.
VerifyCall(c, s, d) ==
  /\ pc[c] = "idle"
  /\ sigIn' = [sigIn EXCEPT ![c] = s]
  /\ dataIn' = [dataIn EXCEPT ![c] = d]
  /\ log' = [log EXCEPT ![c] = <<>>]
  /\ idx' = [idx EXCEPT ![c] = 0]
  /\ tv' = [tv EXCEPT ![c] = "none"]
  /\ IF ~ValidInputs(s, d)
     THEN /\ result' = [result EXCEPT ![c] = "throw"]
          /\ pc' = [pc EXCEPT ![c] = "done"]
          /\ phase' = [phase EXCEPT ![c] = 0]
          /\ lookups' = [lookups EXCEPT ![c] = <<>>]
     ELSE /\ result' = [result EXCEPT ![c] = "none"]
          /\ pc' = [pc EXCEPT ![c] = "awaitLookup"]
          /\ IF HasPrefix(s.bytes)
             THEN /\ phase' = [phase EXCEPT ![c] = 1]
                  /\ lookups' = [lookups EXCEPT ![c] =
                                   <<[kind |-> "prefix", id |-> KeyIdOf(s.bytes)]>>]
             ELSE /\ phase' = [phase EXCEPT ![c] = 2]
                  /\ lookups' = [lookups EXCEPT ![c] =
                                   <<[kind |-> "raw", id |-> RAW_PREFIX]>>]
  /\ UNCHANGED <<primitiveSet, km, wrapped>>

\* The awaited lookup resumes (lines 221 or 235): tryVerification_ starts.
ResumeLookup(c) ==
  /\ pc[c] = "awaitLookup"
  /\ RunLoop(c, LoopStart(PhasePrimitives(primitiveSet, phase[c], sigIn[c].bytes)),
             log[c])
  /\ UNCHANGED <<primitiveSet, sigIn, dataIn, phase, result, lookups, km, wrapped>>

\* The awaited candidate resolves (line 256): lines 257-262, then the loop goes on.
ResolvePrimitive(c) ==
  /\ pc[c] = "awaitPrimitive"
  /\ LET n    == Len(log[c])
         call == log[c][n]
         out  == PrimVerify(primitiveSet[call.e].key, call.sig, call.data)
         done == [log[c] EXCEPT ![n].out = out]
     IN CASE AfterCandidate(out) = "return" ->
               /\ log' = [log EXCEPT ![c] = done]
               /\ tv' = [tv EXCEPT ![c] = "true"]
               /\ pc' = [pc EXCEPT ![c] = "awaitTry"]
               /\ idx' = idx
          [] AfterCandidate(out) = "propagate" ->
               /\ log' = [log EXCEPT ![c] = done]
               /\ tv' = [tv EXCEPT ![c] = "throw"]
               /\ pc' = [pc EXCEPT ![c] = "awaitTry"]
               /\ idx' = idx
          [] OTHER -> RunLoop(c, idx[c] + 1, done)
  /\ UNCHANGED <<primitiveSet, sigIn, dataIn, phase, result, lookups, km, wrapped>>

\* The promise of tryVerification_ settles: lines 226-235 after the prefixed
\* phase, line 236 after the raw phase.
ReturnFromTry(c) ==
  /\ pc[c] = "awaitTry"
  /\ IF phase[c] = 1
     THEN IF ReturnsAfterPrefixed(PrefixedIsValid(tv[c]))
          THEN /\ result' = [result EXCEPT ![c] = "true"]
               /\ pc' = [pc EXCEPT ![c] = "done"]
               /\ UNCHANGED <<phase, lookups>>
          ELSE /\ phase' = [phase EXCEPT ![c] = 2]
               /\ lookups' = [lookups EXCEPT ![c] =
                                Append(@, [kind |-> "raw", id |-> RAW_PREFIX])]
               /\ pc' = [pc EXCEPT ![c] = "awaitLookup"]
               /\ UNCHANGED result
     ELSE /\ result' = [result EXCEPT ![c] = tv[c]]
          /\ pc' = [pc EXCEPT ![c] = "done"]
          /\ UNCHANGED <<phase, lookups>>
  /\ tv' = [tv EXCEPT ![c] = "none"]
  /\ UNCHANGED <<primitiveSet, sigIn, dataIn, idx, log, km, wrapped>>

(***************************************************************************)
(* EcdsaPublicKeyManager                                                   *)
(***************************************************************************)
\* EcdsaPublicKeyManager.KEY_TYPE, SUPPORTED_PRIMITIVE_, VERSION (lines 40-44)
KEY_TYPE == "type.googleapis.com/google.crypto.tink.EcdsaPublicKey"

SUPPORTED_PRIMITIVE_ == "PublicKeyVerify"

VERSION == 0

TypeUrls == {KEY_TYPE, "type.googleapis.com/google.crypto.tink.EcdsaPrivateKey"}

PrimitiveTypes == {"PublicKeyVerify", "PublicKeySign"}

\* A PbEcdsaPublicKey: its version, its params (absent, usable or not), and
\* whether x and y are set.
KeyProtos ==
  [kind : {"PbEcdsaPublicKey"}, version : 0..MaxVersion,
   params : {"absent", "valid", "invalid"}, x : BOOLEAN, y : BOOLEAN]

NoProto ==
  [kind |-> "PbEcdsaPublicKey", version |-> 0, params |-> "absent",
   x |-> FALSE, y |-> FALSE]

\* The bytes of a PbKeyData: the serialization of a key proto, or bytes that do
\* not parse.
KeyValues ==
  {[parses |-> TRUE, proto |-> k] : k \in KeyProtos}
    \cup {[parses |-> FALSE, proto |-> NoProto]}

KeyDatas == [kind : {"PbKeyData"}, typeUrl : TypeUrls, value : KeyValues]

OtherMessage == [kind |-> "PbMessage"]

KeyArgs == KeyDatas \cup KeyProtos \cup {OtherMessage}

\* How a step of getPrimitive ends: the steps taken so far, the error thrown (or
\* "none") and the key proto at hand.
Outcome(steps, err, proto) == [steps |-> steps, err |-> err, proto |-> proto]

\* PbEcdsaPublicKey.deserializeBinary (protobuf): throws on bytes that do not parse.
DeserializeBinary(value) ==
  IF value.parses THEN Outcome(<<"decode">>, "none", value.proto)
  ELSE Outcome(<<"decode">>, "throw", NoProto)

\* EcdsaUtil.validatePublicKey: the version against the manager's, then the
\* params and the coordinates.
ValidatePublicKey(proto, version) ==
  IF proto.version > version THEN "UnsupportedVersion"
  ELSE IF proto.params # "valid" \/ ~proto.x \/ ~proto.y THEN "InvalidKey"
  ELSE "none"

\* getVersion, lines 84-86
GetVersion == VERSION

\* getKeyType, lines 74-76
GetKeyType == KEY_TYPE

\* getPrimitiveType, lines 79-81
GetPrimitiveType == SUPPORTED_PRIMITIVE_

\* Mutant of GetKeyProtoFromKeyData_: the bytes are decoded before the typeUrl is
\* looked at.
GetKeyProtoFromKeyDataDecodeFirst(keyData) ==
  LET dec == DeserializeBinary(keyData.value)
  IN IF dec.err # "none"
     THEN Outcome(<<"decode">>, "CannotParse", NoProto)
     ELSE IF keyData.typeUrl # KEY_TYPE
     THEN Outcome(<<"decode", "typeUrl">>, "KeyTypeNotSupported", NoProto)
     ELSE IF dec.proto.params = "absent" \/ ~dec.proto.x \/ ~dec.proto.y
     THEN Outcome(<<"decode", "typeUrl", "fields">>, "CannotParse", NoProto)
     ELSE Outcome(<<"decode", "typeUrl", "fields">>, "none", dec.proto)

\* Mutant of GetKeyProtoFromKeyData_: the presence of y is not checked.
GetKeyProtoFromKeyDataNoY(keyData) ==
  IF keyData.typeUrl # KEY_TYPE
  THEN Outcome(<<"typeUrl">>, "KeyTypeNotSupported", NoProto)
  ELSE LET dec == DeserializeBinary(keyData.value)
       IN IF dec.err # "none"
          THEN Outcome(<<"typeUrl", "decode">>, "CannotParse", NoProto)
          ELSE IF dec.proto.params = "absent" \/ ~dec.proto.x
          THEN Outcome(<<"typeUrl", "decode", "fields">>, "CannotParse", NoProto)
          ELSE Outcome(<<"typeUrl", "decode", "fields">>, "none", dec.proto)

\* getKeyProtoFromKeyData_, lines 106-126
GetKeyProtoFromKeyData_(keyData) ==
  IF keyData.typeUrl # KEY_TYPE
  THEN Outcome(<<"typeUrl">>, "KeyTypeNotSupported", NoProto)
  ELSE LET dec == DeserializeBinary(keyData.value)
       IN IF dec.err # "none"
          THEN Outcome(<<"typeUrl", "decode">>, "CannotParse", NoProto)
          ELSE IF dec.proto.params = "absent" \/ ~dec.proto.x \/ ~dec.proto.y
          THEN Outcome(<<"typeUrl", "decode", "fields">>, "CannotParse", NoProto)
          ELSE Outcome(<<"typeUrl", "decode", "fields">>, "none", dec.proto)

\* Mutant of GetKeyProto_: an already-parsed key also goes through the
\* required-field check.
GetKeyProtoCheckingFields(keyMaterial) ==
  IF keyMaterial.kind = "PbKeyData" THEN GetKeyProtoFromKeyData_(keyMaterial)
  ELSE IF keyMaterial.kind = "PbEcdsaPublicKey"
  THEN IF keyMaterial.params = "absent" \/ ~keyMaterial.x \/ ~keyMaterial.y
       THEN Outcome(<<"fields">>, "CannotParse", NoProto)
       ELSE Outcome(<<"fields">>, "none", keyMaterial)
  ELSE Outcome(<<>>, "KeyTypeNotSupported", NoProto)

\* getKeyProto_, lines 93-104
GetKeyProto_(keyMaterial) ==
  IF keyMaterial.kind = "PbKeyData" THEN GetKeyProtoFromKeyData_(keyMaterial)
  ELSE IF keyMaterial.kind = "PbEcdsaPublicKey"
  THEN Outcome(<<>>, "none", keyMaterial)
  ELSE Outcome(<<>>, "KeyTypeNotSupported", NoProto)

\* What a call of getPrimitive leaves: the steps it took, the error it rejected
\* with (or "none") and the verifiers it built (none or one, named by its key).
Call(op, args, steps, err, built) ==
  [op |-> op, args |-> args, steps |-> steps, err |-> err, built |-> built]

\* Mutant of GetPrimitive: the key proto is not validated before the verifier is
\* built (line 60 dropped).
GetPrimitiveUnvalidated(primitiveType, key) ==
  IF primitiveType # GetPrimitiveType
  THEN Call("getPrimitive", <<primitiveType, key>>, <<"primitiveType">>,
            "UnsupportedPrimitive", <<>>)
  ELSE LET kp    == GetKeyProto_(key)
           steps == <<"primitiveType">> \o kp.steps
       IN IF kp.err # "none"
          THEN Call("getPrimitive", <<primitiveType, key>>, steps, kp.err, <<>>)
          ELSE Call("getPrimitive", <<primitiveType, key>>,
                    steps \o <<"fromJsonWebKey">>, "none", <<kp.proto>>)

\* Mutant of GetPrimitive: the key is inspected before the primitive type.
GetPrimitiveKeyFirst(primitiveType, key) ==
  LET kp == GetKeyProto_(key)
  IN IF kp.err # "none"
     THEN Call("getPrimitive", <<primitiveType, key>>, kp.steps, kp.err, <<>>)
     ELSE IF primitiveType # GetPrimitiveType
     THEN Call("getPrimitive", <<primitiveType, key>>,
               kp.steps \o <<"primitiveType">>, "UnsupportedPrimitive", <<>>)
     ELSE LET v == ValidatePublicKey(kp.proto, GetVersion)
          IN IF v # "none"
             THEN Call("getPrimitive", <<primitiveType, key>>,
                       kp.steps \o <<"primitiveType", "validatePublicKey">>, v, <<>>)
             ELSE Call("getPrimitive", <<primitiveType, key>>,
                       kp.steps \o <<"primitiveType", "validatePublicKey",
                                     "fromJsonWebKey">>,
                       "none", <<kp.proto>>)

\* getPrimitive, lines 52-66
GetPrimitive(primitiveType, key) ==
  IF primitiveType # GetPrimitiveType
  THEN Call("getPrimitive", <<primitiveType, key>>, <<"primitiveType">>,
            "UnsupportedPrimitive", <<>>)
  ELSE LET kp    == GetKeyProto_(key)
           steps == <<"primitiveType">> \o kp.steps
       IN IF kp.err # "none"
          THEN Call("getPrimitive", <<primitiveType, key>>, steps, kp.err, <<>>)
          ELSE LET v == ValidatePublicKey(kp.proto, GetVersion)
               IN IF v # "none"
                  THEN Call("getPrimitive", <<primitiveType, key>>,
                            steps \o <<"validatePublicKey">>, v, <<>>)
                  ELSE Call("getPrimitive", <<primitiveType, key>>,
                            steps \o <<"validatePublicKey", "fromJsonWebKey">>,
                            "none", <<kp.proto>>)

\* What a call that returns a plain value leaves.
Returned(op, args, value) ==
  [op |-> op, args |-> args, steps |-> <<>>, err |-> "none", built |-> <<>>,
   ret |-> <<value>>]

\* The key types doesSupport is asked about: the manager's, the private key's, the
\* manager's in lower case, and the empty string.
KeyTypeQueries ==
  TypeUrls \cup {"type.googleapis.com/google.crypto.tink.ecdsapublickey", ""}

\* Mutant of DoesSupport: the comparison ignores case.
DoesSupportIgnoringCase(keyType) ==
  keyType \in {GetKeyType, "type.googleapis.com/google.crypto.tink.ecdsapublickey"}

\* doesSupport, lines 69-71
DoesSupport(keyType) == keyType = GetKeyType

\* The arguments newKey and newKeyData are called with: null, an empty format, a
\* filled-in EcdsaKeyFormat (serialized, for newKeyData).
KeyFormats == {"null", "empty", "EcdsaKeyFormat"}

\* Mutant of NewKey: only a null format is refused.
NewKeyUnlessNull(keyFormat) ==
  IF keyFormat = "null"
  THEN Call("newKey", <<keyFormat>>, <<>>, "UnsupportedOperation", <<>>)
  ELSE Call("newKey", <<keyFormat>>, <<>>, "none",
            <<[NoProto EXCEPT !.params = "valid", !.x = TRUE, !.y = TRUE]>>)

\* EcdsaPublicKeyFactory.newKey, lines 21-25
NewKey(keyFormat) ==
  Call("newKey", <<keyFormat>>, <<>>, "UnsupportedOperation", <<>>)

\* EcdsaPublicKeyFactory.newKeyData, lines 28-32
NewKeyData(serializedKeyFormat) ==
  Call("newKeyData", <<serializedKeyFormat>>, <<>>, "UnsupportedOperation", <<>>)

\* getKeyFactory, lines 89-91
GetKeyFactory(manager) == manager.keyFactory

\* The manager after its constructor (lines 47-49), no call made yet.
NewManager ==
  [keyFactory |-> "EcdsaPublicKeyFactory",
   last |-> Call("none", <<>>, <<>>, "none", <<>>)]

\* A call of getPrimitive on the manager.
CallGetPrimitive(primitiveType, key) ==
  /\ km' = [km EXCEPT !.last = GetPrimitive(primitiveType, key)]
  /\ UNCHANGED <<wvars, wrapped>>

\* A call of newKey / newKeyData on the factory getKeyFactory() returns.
CallNewKey(keyFormat) ==
  /\ GetKeyFactory(km) = "EcdsaPublicKeyFactory"
  /\ km' = [km EXCEPT !.last = NewKey(keyFormat)]
  /\ UNCHANGED <<wvars, wrapped>>

CallNewKeyData(serializedKeyFormat) ==
  /\ GetKeyFactory(km) = "EcdsaPublicKeyFactory"
  /\ km' = [km EXCEPT !.last = NewKeyData(serializedKeyFormat)]
  /\ UNCHANGED <<wvars, wrapped>>

\* Calls of doesSupport, getKeyType and getVersion.
CallDoesSupport(keyType) ==
  /\ km' = [km EXCEPT !.last = Returned("doesSupport", <<keyType>>, DoesSupport(keyType))]
  /\ UNCHANGED <<wvars, wrapped>>

CallGetKeyType ==
  /\ km' = [km EXCEPT !.last = Returned("getKeyType", <<>>, GetKeyType)]
  /\ UNCHANGED <<wvars, wrapped>>

CallGetVersion ==
  /\ km' = [km EXCEPT !.last = Returned("getVersion", <<>>, GetVersion)]
  /\ UNCHANGED <<wvars, wrapped>>

\* The state after PublicKeyVerifyWrapper.wrap(set), with the verify calls of
\* `callers` not yet made.
\* What wrap is called with: a primitive set, or null / undefined in its place.
PresentSet(entries) == [kind |-> "set", entries |-> entries]

AbsentSets == {[kind |-> k, entries |-> <<>>] : k \in {"null", "undefined"}}

WrapArgs == {PresentSet(s) : s \in PrimitiveSets} \cup AbsentSets

WrapOutcome(state, arg) == [state |-> state, arg |-> arg]

NotWrapped == WrapOutcome("none", [kind |-> "none", entries |-> <<>>])

\* Mutant of NewPublicKeyVerifyThrows: only null is refused.
NewPublicKeyVerifyThrowsOnNull(set) == set.kind = "null"

\* newPublicKeyVerify, line 209: !primitiveSet
NewPublicKeyVerifyThrows(set) == set.kind \in {"null", "undefined"}

\* PublicKeyVerifyWrapper.wrap (lines 273-275) through newPublicKeyVerify (lines
\* 206-213) and the constructor (lines 203-204): the set is stored, a wrapped
\* primitive exists on which verify can be called.
Wrap(set) ==
  /\ wrapped = NotWrapped
  /\ IF NewPublicKeyVerifyThrows(set)
     THEN /\ wrapped' = WrapOutcome("failed", set)
          /\ UNCHANGED <<wvars, km>>
     ELSE /\ wrapped' = WrapOutcome("ok", set)
          /\ primitiveSet' = set.entries
          /\ pc' = [c \in {1} |-> "idle"]
          /\ sigIn' = [c \in {1} |-> NotU8]
          /\ dataIn' = [c \in {1} |-> NotU8]
          /\ phase' = [c \in {1} |-> 0]
          /\ idx' = [c \in {1} |-> 0]
          /\ tv' = [c \in {1} |-> "none"]
          /\ result' = [c \in {1} |-> "none"]
          /\ log' = [c \in {1} |-> <<>>]
          /\ lookups' = [c \in {1} |-> <<>>]
          /\ UNCHANGED km

InitWrapped(callers) ==
  /\ pc = [c \in callers |-> "idle"]
  /\ sigIn = [c \in callers |-> NotU8]
  /\ dataIn = [c \in callers |-> NotU8]
  /\ phase = [c \in callers |-> 0]
  /\ idx = [c \in callers |-> 0]
  /\ tv = [c \in callers |-> "none"]
  /\ result = [c \in callers |-> "none"]
  /\ log = [c \in callers |-> <<>>]
  /\ lookups = [c \in callers |-> <<>>]
  /\ km = NewManager

\* One verify call on a wrapped primitive set.
Init ==
  /\ primitiveSet \in PrimitiveSets
  /\ wrapped = WrapOutcome("ok", PresentSet(primitiveSet))
  /\ InitWrapped({1})

Next ==
  \/ \E c \in Callers, s \in SigArgs, d \in DataArgs : VerifyCall(c, s, d)
  \/ \E c \in Callers : ResumeLookup(c)
  \/ \E c \in Callers : ResolvePrimitive(c)
  \/ \E c \in Callers : ReturnFromTry(c)

Spec == Init /\ [][Next]_vars

\* From before the wrap: the wrapper is called once, then verify on what it
\* returned.
InitWrap ==
  /\ primitiveSet = <<>>
  /\ wrapped = NotWrapped
  /\ InitWrapped({})

NextWrap ==
  \/ wrapped = NotWrapped /\ \E set \in WrapArgs : Wrap(set)
  \/ \E c \in Callers, s \in SigArgs, d \in DataArgs : VerifyCall(c, s, d)
  \/ \E c \in Callers : ResumeLookup(c)
  \/ \E c \in Callers : ResolvePrimitive(c)
  \/ \E c \in Callers : ReturnFromTry(c)

SpecWrap == InitWrap /\ [][NextWrap]_vars

\* Two verify calls in progress at once on one wrapped primitive set, their steps
\* interleaved at every await.  The sets are full ones of raw and KeyId1 entries,
\* ENABLED or DISABLED; the signatures are a raw one, two under KeyId1, and a
\* value that is no byte array.
ConcPrimitiveSets ==
  {set \in PrimitiveSets :
     /\ Len(set) = MaxEntries
     /\ \A i \in 1..Len(set) :
          /\ set[i].prefix \in {RAW_PREFIX, KeyId1}
          /\ set[i].status # "DESTROYED"}

ConcSigArgs == {U8(<<7, 0>>), U8(KeyId1 \o <<7, 0>>), U8(KeyId1 \o <<7, 1>>), NotU8}

ConcDataArgs == {U8(<<0>>), U8(<<1>>)}

InitConc ==
  /\ primitiveSet \in ConcPrimitiveSets
  /\ wrapped = WrapOutcome("ok", PresentSet(primitiveSet))
  /\ InitWrapped({1, 2})

NextConc ==
  \/ \E c \in Callers, s \in ConcSigArgs, d \in ConcDataArgs : VerifyCall(c, s, d)
  \/ \E c \in Callers : ResumeLookup(c)
  \/ \E c \in Callers : ResolvePrimitive(c)
  \/ \E c \in Callers : ReturnFromTry(c)

SpecConc == InitConc /\ [][NextConc]_vars

\* Every awaited lookup and every awaited candidate invocation resolves, and the
\* continuation of an await is run: the steps of a call in flight are taken.
Fairness ==
  /\ WF_vars(\E c \in Callers : ResumeLookup(c))
  /\ WF_vars(\E c \in Callers : ResolvePrimitive(c))
  /\ WF_vars(\E c \in Callers : ReturnFromTry(c))

\* The fair runs are taken over the sets of raw and KeyId1 entries, ENABLED or
\* DISABLED, of every length, and every input of Spec.
LivePrimitiveSets ==
  {set \in PrimitiveSets :
     \A i \in 1..Len(set) :
       /\ set[i].prefix \in {RAW_PREFIX, KeyId1}
       /\ set[i].status # "DESTROYED"}

InitLive ==
  /\ primitiveSet \in LivePrimitiveSets
  /\ wrapped = WrapOutcome("ok", PresentSet(primitiveSet))
  /\ InitWrapped({1})

SpecLive == InitLive /\ [][Next]_vars /\ Fairness

\* The key manager alone: no primitive set is wrapped, no verify call is made.
InitKM ==
  /\ primitiveSet = <<>>
  /\ wrapped = NotWrapped
  /\ InitWrapped({})

NextKM ==
  \/ \E primitiveType \in PrimitiveTypes, key \in KeyArgs :
       CallGetPrimitive(primitiveType, key)
  \/ \E keyFormat \in KeyFormats : CallNewKey(keyFormat)
  \/ \E serializedKeyFormat \in KeyFormats : CallNewKeyData(serializedKeyFormat)
  \/ \E keyType \in KeyTypeQueries : CallDoesSupport(keyType)
  \/ CallGetKeyType
  \/ CallGetVersion

SpecKM == InitKM /\ [][NextKM]_vars

(***************************************************************************)
(* Vocabulary of the claims about verify                                   *)
(***************************************************************************)
Finished(c) == pc[c] = "done"

WellTyped(c) == sigIn[c].u8 /\ dataIn[c].u8

FullSig(c) == sigIn[c].bytes

LongSig(c) == Len(FullSig(c)) > NON_RAW_PREFIX_SIZE

PrefixOfSig(c) == SubSeq(FullSig(c), 1, NON_RAW_PREFIX_SIZE)

RestOfSig(c) == SubSeq(FullSig(c), NON_RAW_PREFIX_SIZE + 1, Len(FullSig(c)))

EntryEnabled(e) == primitiveSet[e].status = "ENABLED"

\* Entry e's primitive would return true on (s, d).
WouldAccept(e, s, d) == PrimVerify(primitiveSet[e].key, s, d) = "true"

\* The positions of the entries carrying the input's prefix / of the raw entries.
PrefixGroup(c) ==
  {e \in 1..Len(primitiveSet) : primitiveSet[e].prefix = PrefixOfSig(c)}

RawGroup == {e \in 1..Len(primitiveSet) : primitiveSet[e].prefix = <<>>}

PrefixedAccepts(c) ==
  /\ LongSig(c)
  /\ \E e \in PrefixGroup(c) :
       EntryEnabled(e) /\ WouldAccept(e, RestOfSig(c), dataIn[c].bytes)

RawAccepts(c) ==
  \E e \in RawGroup : EntryEnabled(e) /\ WouldAccept(e, FullSig(c), dataIn[c].bytes)

Invoked(c) == {log[c][n].e : n \in 1..Len(log[c])}

IsPrefixOf(a, b) ==
  /\ Len(a) <= Len(b)
  /\ \A i \in 1..Len(a) : a[i] = b[i]

\* The ENABLED entries of the input's prefix group, then the ENABLED raw entries,
\* each in insertion order.
TryOrder(c) ==
  LET all   == [i \in 1..Len(primitiveSet) |-> i]
      inPfx == SelectSeq(all, LAMBDA e : LongSig(c) /\ e \in PrefixGroup(c)
                                          /\ EntryEnabled(e))
      inRaw == SelectSeq(all, LAMBDA e : e \in RawGroup /\ EntryEnabled(e))
  IN inPfx \o inRaw

(***************************************************************************)
(* Claims                                                                  *)
(***************************************************************************)

\* C1: for byte-array signature and data, verify returns true iff an ENABLED
\* entry of the prefix group accepts (remainder, data) with the signature longer
\* than the prefix, or an ENABLED raw entry accepts (full signature, data); in
\* every other case it returns false.
C1_Soundness ==
  \A c \in Callers :
    (Finished(c) /\ WellTyped(c)) =>
      result[c] = IF PrefixedAccepts(c) \/ RawAccepts(c) THEN "true" ELSE "false"

\* A long signature that no prefixed entry accepts, that a disabled raw entry would
\* accept and an ENABLED raw entry does accept.
C1_Witness ==
  \E c \in Callers :
    /\ Finished(c) /\ WellTyped(c) /\ LongSig(c)
    /\ ~PrefixedAccepts(c) /\ RawAccepts(c)
    /\ \E e \in RawGroup : ~EntryEnabled(e)
    /\ result[c] = "true"

\* C2: the primitive of an entry that is not ENABLED is never invoked, in either
\* phase; when no ENABLED entry would accept the pair, verify yields false.
C2_StatusExclusion ==
  \A c \in Callers :
    /\ \A e \in Invoked(c) : EntryEnabled(e)
    /\ (Finished(c) /\ WellTyped(c)
        /\ \A e \in 1..Len(primitiveSet) :
             EntryEnabled(e) =>
               /\ ~WouldAccept(e, FullSig(c), dataIn[c].bytes)
               /\ ~WouldAccept(e, RestOfSig(c), dataIn[c].bytes))
       => result[c] = "false"

\* A DISABLED entry of the prefix group and a DESTROYED raw entry would both accept;
\* neither was invoked and the result is false.
C2_Witness ==
  \E c \in Callers :
    /\ Finished(c) /\ WellTyped(c) /\ LongSig(c)
    /\ \E e \in PrefixGroup(c) :
         /\ primitiveSet[e].status = "DISABLED"
         /\ WouldAccept(e, RestOfSig(c), dataIn[c].bytes)
    /\ \E e \in RawGroup :
         /\ primitiveSet[e].status = "DESTROYED"
         /\ WouldAccept(e, FullSig(c), dataIn[c].bytes)
    /\ Invoked(c) = {}
    /\ result[c] = "false"

\* C3: with byte-array inputs, if every candidate verify invoked threw or returned
\* false, verify resolves to false and does not raise: the same value as when
\* there was no candidate at all.
C3_ErrorOpacity ==
  \A c \in Callers :
    (Finished(c) /\ WellTyped(c)
     /\ \A n \in 1..Len(log[c]) : log[c][n].out \in {"throw", "false"})
    => result[c] = "false"

\* A candidate of the prefix group threw, then a raw candidate threw: false.
C3_Witness ==
  \E c \in Callers :
    /\ Finished(c) /\ WellTyped(c)
    /\ \E n \in 1..Len(log[c]) : log[c][n].phase = 1 /\ log[c][n].out = "throw"
    /\ \E n \in 1..Len(log[c]) : log[c][n].phase = 2 /\ log[c][n].out = "throw"
    /\ result[c] = "false"

\* C4 as stated: verify never raises, whatever its input.
C4_NeverRaises == \A c \in Callers : result[c] # "throw"

\* C4 amended: verify raises exactly when the signature or the data is not a byte
\* array; for byte arrays (undersized ones included) the outcome is a boolean.
C4_RaisesOnlyOnNonByteArray ==
  \A c \in Callers :
    Finished(c) =>
      /\ (result[c] = "throw") <=> ~WellTyped(c)
      /\ WellTyped(c) => result[c] \in {"true", "false"}

\* An undersized byte-array signature whose raw candidate threw: false, no raise.
C4_Witness ==
  \E c \in Callers :
    /\ Finished(c) /\ WellTyped(c) /\ ~LongSig(c)
    /\ \E n \in 1..Len(log[c]) : log[c][n].out = "throw"
    /\ result[c] = "false"

\* C5: when the prefixed phase yields no success, verify goes on to the raw phase
\* and invokes the ENABLED raw entries on the full signature, prefix bytes
\* included (each of them, up to the first that succeeds).
C5_FallbackOnFullSignature ==
  \A c \in Callers :
    /\ \A n \in 1..Len(log[c]) :
         log[c][n].phase = 2 =>
           /\ log[c][n].sig = FullSig(c)
           /\ log[c][n].e \in RawGroup
    /\ (Finished(c) /\ WellTyped(c) /\ LongSig(c) /\ ~PrefixedAccepts(c)) =>
         /\ \E n \in 1..Len(lookups[c]) : lookups[c][n].kind = "raw"
         /\ \A e \in RawGroup :
              EntryEnabled(e) =>
                \/ \E n \in 1..Len(log[c]) :
                     /\ log[c][n].e = e
                     /\ log[c][n].sig = FullSig(c)
                     /\ log[c][n].data = dataIn[c].bytes
                \/ \E f \in RawGroup :
                     f < e /\ EntryEnabled(f)
                     /\ WouldAccept(f, FullSig(c), dataIn[c].bytes)

\* An ENABLED entry of the prefix group was tried on the remainder without
\* success, then a raw entry accepted the full signature.
C5_Witness ==
  \E c \in Callers :
    /\ Finished(c) /\ LongSig(c)
    /\ \E n \in 1..Len(log[c]) :
         log[c][n].phase = 1 /\ log[c][n].out # "true"
    /\ \E n \in 1..Len(log[c]) :
         /\ log[c][n].phase = 2
         /\ log[c][n].sig = FullSig(c)
         /\ log[c][n].out = "true"
    /\ result[c] = "true"

\* C6: the candidates are invoked one at a time in a fixed order, the ENABLED
\* entries of the prefix group in insertion order and then the ENABLED raw entries
\* in insertion order; a candidate is invoked only after the one before it has
\* resolved without success.
C6_SequentialOrder ==
  \A c \in Callers :
    /\ IsPrefixOf([n \in 1..Len(log[c]) |-> log[c][n].e], TryOrder(c))
    /\ \A n \in 1..Len(log[c]) :
         n < Len(log[c]) => log[c][n].out \in {"false", "throw"}
    /\ \A n \in 1..Len(log[c]) :
         log[c][n].out = "pending" => (n = Len(log[c]) /\ pc[c] = "awaitPrimitive")

\* Two ENABLED entries share the prefix: the first was invoked and did not
\* succeed, then the second was invoked.
C6_Witness ==
  \E c \in Callers :
    /\ Len(log[c]) = 2
    /\ log[c][1].phase = 1 /\ log[c][2].phase = 1
    /\ log[c][1].e < log[c][2].e
    /\ primitiveSet[log[c][1].e].prefix = primitiveSet[log[c][2].e].prefix
    /\ log[c][1].out \in {"false", "throw"}
    /\ log[c][2].out = "true"

\* C7: once a candidate has returned true no later candidate is invoked and
\* verify returns true; after a success in the prefixed phase the raw phase is
\* not entered (no raw lookup, no raw invocation).
C7_ShortCircuit ==
  \A c \in Callers :
    \A n \in 1..Len(log[c]) :
      log[c][n].out = "true" =>
        /\ n = Len(log[c])
        /\ pc[c] \in {"awaitTry", "done"}
        /\ Finished(c) => result[c] = "true"
        /\ log[c][n].phase = 1 =>
             \A m \in 1..Len(lookups[c]) : lookups[c][m].kind # "raw"

\* The prefixed entry accepted; an ENABLED raw entry that would also accept the
\* full signature was not invoked.
C7_Witness ==
  \E c \in Callers :
    /\ Finished(c) /\ result[c] = "true"
    /\ Len(log[c]) = 1 /\ log[c][1].phase = 1 /\ log[c][1].out = "true"
    /\ \E e \in RawGroup :
         /\ EntryEnabled(e)
         /\ WouldAccept(e, FullSig(c), dataIn[c].bytes)
         /\ e \notin Invoked(c)

\* C8: with byte-array inputs, verify looks the prefix up (getPrimitives on the
\* first NON_RAW_PREFIX_SIZE bytes) exactly when the signature is longer than
\* NON_RAW_PREFIX_SIZE; otherwise only the raw lookup is made and only raw entries
\* are tried, on the full input.
C8_PrefixLookupOnlyWhenLonger ==
  \A c \in Callers :
    (pc[c] # "idle" /\ WellTyped(c)) =>
      /\ (\E n \in 1..Len(lookups[c]) : lookups[c][n].kind = "prefix") <=> LongSig(c)
      /\ \A n \in 1..Len(lookups[c]) :
           lookups[c][n].kind = "prefix" =>
             (n = 1 /\ lookups[c][n].id = PrefixOfSig(c))
      /\ ~LongSig(c) =>
           /\ lookups[c] = <<[kind |-> "raw", id |-> <<>>]>>
           /\ \A n \in 1..Len(log[c]) :
                log[c][n].e \in RawGroup /\ log[c][n].sig = FullSig(c)

\* A signature of exactly NON_RAW_PREFIX_SIZE bytes that equals an entry's
\* identifier: that entry was not tried, the raw entry was, on the full input.
C8_Witness ==
  \E c \in Callers :
    /\ Finished(c) /\ WellTyped(c)
    /\ Len(FullSig(c)) = NON_RAW_PREFIX_SIZE
    /\ \E e \in 1..Len(primitiveSet) :
         primitiveSet[e].prefix = FullSig(c) /\ EntryEnabled(e) /\ e \notin Invoked(c)
    /\ \E n \in 1..Len(log[c]) : log[c][n].sig = FullSig(c)

(***************************************************************************)
(* Vocabulary of the claims about the key manager                          *)
(***************************************************************************)
LastCall == km.last

IsGetPrimitive == LastCall.op = "getPrimitive"

ArgPrimitiveType == LastCall.args[1]

ArgKey == LastCall.args[2]

ValidationOrder ==
  <<"primitiveType", "typeUrl", "decode", "fields", "validatePublicKey",
    "fromJsonWebKey">>

Rank(step) == CHOOSE i \in 1..Len(ValidationOrder) : ValidationOrder[i] = step

InValidationOrder(steps) ==
  \A i, j \in 1..Len(steps) : i < j => Rank(steps[i]) < Rank(steps[j])

StepTaken(step) == \E i \in 1..Len(LastCall.steps) : LastCall.steps[i] = step

FieldsPresent(proto) == proto.params # "absent" /\ proto.x /\ proto.y

\* C9: for a PbKeyData whose typeUrl is not KEY_TYPE, key validation fails with
\* the key-type error whatever the payload (undecodable bytes and keys lacking
\* fields included): the bytes are not decoded and no primitive is built.
C9_KeyTypeGuard ==
  (/\ IsGetPrimitive
   /\ ArgPrimitiveType = "PublicKeyVerify"
   /\ ArgKey.kind = "PbKeyData"
   /\ ArgKey.typeUrl # "type.googleapis.com/google.crypto.tink.EcdsaPublicKey")
  => /\ LastCall.err = "KeyTypeNotSupported"
     /\ ~StepTaken("decode")
     /\ LastCall.built = <<>>

\* A PbKeyData of another key type whose bytes do not parse: the key-type error.
C9_Witness ==
  /\ IsGetPrimitive
  /\ ArgPrimitiveType = "PublicKeyVerify"
  /\ ArgKey.kind = "PbKeyData"
  /\ ArgKey.typeUrl # "type.googleapis.com/google.crypto.tink.EcdsaPublicKey"
  /\ ~ArgKey.value.parses
  /\ LastCall.err = "KeyTypeNotSupported"

\* C10: getPrimitive builds the verifier only after every validation step has
\* passed, the steps taken in the order primitive type, key type, decoding,
\* required fields, validatePublicKey; when a step fails (a key version above the
\* manager's version 0 included) the call rejects and no primitive is built.
C10_ValidateBeforeBuild ==
  IsGetPrimitive =>
    /\ Len(LastCall.steps) >= 1 /\ LastCall.steps[1] = "primitiveType"
    /\ InValidationOrder(LastCall.steps)
    /\ (LastCall.err = "none") <=> (LastCall.built # <<>>)
    /\ StepTaken("fromJsonWebKey") <=> (LastCall.built # <<>>)
    /\ LastCall.built # <<>> =>
         /\ Len(LastCall.built) = 1
         /\ ArgPrimitiveType = "PublicKeyVerify"
         /\ StepTaken("validatePublicKey")
         /\ LastCall.built[1].version <= 0
         /\ ArgKey.kind \in {"PbKeyData", "PbEcdsaPublicKey"}
         /\ ArgKey.kind = "PbEcdsaPublicKey" => LastCall.built[1] = ArgKey
         /\ ArgKey.kind = "PbKeyData" =>
              /\ ArgKey.typeUrl = "type.googleapis.com/google.crypto.tink.EcdsaPublicKey"
              /\ ArgKey.value.parses
              /\ FieldsPresent(ArgKey.value.proto)
              /\ LastCall.built[1] = ArgKey.value.proto
              /\ LastCall.steps = ValidationOrder
    /\ (/\ ArgPrimitiveType = "PublicKeyVerify"
        /\ ArgKey.kind = "PbKeyData"
        /\ ArgKey.typeUrl = "type.googleapis.com/google.crypto.tink.EcdsaPublicKey"
        /\ ArgKey.value.parses
        /\ FieldsPresent(ArgKey.value.proto)
        /\ ArgKey.value.proto.version > 0)
       => /\ LastCall.err = "UnsupportedVersion"
          /\ LastCall.built = <<>>

\* A PbKeyData that passes every step: the verifier is built last.
C10_Witness ==
  /\ IsGetPrimitive
  /\ ArgKey.kind = "PbKeyData"
  /\ LastCall.steps = ValidationOrder
  /\ LastCall.built = <<ArgKey.value.proto>>
  /\ LastCall.err = "none"

\* C11: for a PbKeyData with the manager's typeUrl, validation fails with the
\* malformed-key error when the bytes do not decode and when the decoded key
\* lacks params, x or y; the decoded key is returned (and handed on to
\* validatePublicKey) only when decoding succeeds and all three are present.
C11_MalformedKey ==
  (/\ IsGetPrimitive
   /\ ArgPrimitiveType = "PublicKeyVerify"
   /\ ArgKey.kind = "PbKeyData"
   /\ ArgKey.typeUrl = "type.googleapis.com/google.crypto.tink.EcdsaPublicKey")
  => LET decoded == ArgKey.value.proto
         wellFormed ==
           /\ ArgKey.value.parses
           /\ decoded.params # "absent" /\ decoded.x /\ decoded.y
     IN /\ ~wellFormed => (LastCall.err = "CannotParse" /\ LastCall.built = <<>>)
        /\ ~wellFormed => ~StepTaken("validatePublicKey")
        /\ wellFormed =>
             /\ LastCall.err # "CannotParse"
             /\ StepTaken("validatePublicKey")
             /\ LastCall.built # <<>> => LastCall.built[1] = decoded

\* A key of the right type that decodes and lacks only y: the malformed-key error.
C11_Witness ==
  /\ IsGetPrimitive
  /\ ArgPrimitiveType = "PublicKeyVerify"
  /\ ArgKey.kind = "PbKeyData"
  /\ ArgKey.typeUrl = "type.googleapis.com/google.crypto.tink.EcdsaPublicKey"
  /\ ArgKey.value.parses
  /\ ArgKey.value.proto.params = "valid"
  /\ ArgKey.value.proto.x /\ ~ArgKey.value.proto.y
  /\ LastCall.err = "CannotParse"

\* C12: the factory the manager hands out refuses generation: newKey and
\* newKeyData fail with the unsupported-operation error for every argument (null
\* and empty included) and return no key, whatever was called before; the manager
\* keeps the factory its constructor made.
C12_FactoryRefuses ==
  /\ km.keyFactory = "EcdsaPublicKeyFactory"
  /\ LastCall.op \in {"newKey", "newKeyData"} =>
       /\ LastCall.err = "UnsupportedOperation"
       /\ LastCall.built = <<>>

\* newKey called with a filled-in key format: refused.
C12_Witness ==
  /\ LastCall.op = "newKey"
  /\ LastCall.args = <<"EcdsaKeyFormat">>
  /\ LastCall.err = "UnsupportedOperation"

\* C15: doesSupport(t) answers true exactly when t is the manager's key type, and
\* getKeyType and getVersion return the same constants (the EcdsaPublicKey type
\* url, version 0) on every call, whatever was called before.
C15_Identity ==
  /\ LastCall.op = "doesSupport" =>
       (LastCall.ret[1] <=>
          LastCall.args[1] = "type.googleapis.com/google.crypto.tink.EcdsaPublicKey")
  /\ LastCall.op = "getKeyType" =>
       LastCall.ret = <<"type.googleapis.com/google.crypto.tink.EcdsaPublicKey">>
  /\ LastCall.op = "getVersion" => LastCall.ret = <<0>>

\* doesSupport asked about the key type in lower case: not supported.
C15_Witness ==
  /\ LastCall.op = "doesSupport"
  /\ LastCall.args = <<"type.googleapis.com/google.crypto.tink.ecdsapublickey">>
  /\ LastCall.ret = <<FALSE>>

\* C18: getPrimitive asked for a primitive type other than PublicKeyVerify fails
\* with the unsupported-primitive-type error before the key is looked at: for
\* every key argument (wrong typeUrl, undecodable, not a key at all) that is the
\* error, the primitive-type check is the only step taken, nothing is built.
C18_PrimitiveTypeFirst ==
  (IsGetPrimitive /\ ArgPrimitiveType # "PublicKeyVerify")
  => /\ LastCall.err = "UnsupportedPrimitive"
     /\ LastCall.steps = <<"primitiveType">>
     /\ LastCall.built = <<>>

\* PublicKeySign asked for, with a PbKeyData of the wrong typeUrl whose bytes do
\* not decode: the primitive-type error, not the key-type one.
C18_Witness ==
  /\ IsGetPrimitive
  /\ ArgPrimitiveType = "PublicKeySign"
  /\ ArgKey.kind = "PbKeyData"
  /\ ArgKey.typeUrl # "type.googleapis.com/google.crypto.tink.EcdsaPublicKey"
  /\ ~ArgKey.value.parses
  /\ LastCall.err = "UnsupportedPrimitive"

\* C19: with the supported primitive type, a PbKeyData goes through the typeUrl,
\* decoding and required-field checks; an already-parsed PbEcdsaPublicKey skips
\* the three and is handed as is to validatePublicKey, whose verdict is the
\* call's; any other argument gets the key-type error, unvalidated.  Whatever is
\* built was validated first.
C19_KeyShapes ==
  (IsGetPrimitive /\ ArgPrimitiveType = "PublicKeyVerify")
  => /\ ArgKey.kind = "PbKeyData" =>
          /\ StepTaken("typeUrl")
          /\ LastCall.err = "none" =>
               StepTaken("decode") /\ StepTaken("fields")
     /\ ArgKey.kind = "PbEcdsaPublicKey" =>
          /\ LastCall.steps \in {<<"primitiveType", "validatePublicKey">>,
                                 <<"primitiveType", "validatePublicKey",
                                   "fromJsonWebKey">>}
          /\ LastCall.err \in {"none", "UnsupportedVersion", "InvalidKey"}
          /\ LastCall.err = "none" <=>
               (ArgKey.version <= 0 /\ ArgKey.params = "valid"
                /\ ArgKey.x /\ ArgKey.y)
          /\ LastCall.err = "none" => LastCall.built = <<ArgKey>>
     /\ ArgKey.kind \notin {"PbKeyData", "PbEcdsaPublicKey"} =>
          /\ LastCall.err = "KeyTypeNotSupported"
          /\ LastCall.steps = <<"primitiveType">>
          /\ LastCall.built = <<>>
     /\ LastCall.built # <<>> =>
          /\ ArgKey.kind \in {"PbKeyData", "PbEcdsaPublicKey"}
          /\ \E i, j \in 1..Len(LastCall.steps) :
               /\ i < j
               /\ LastCall.steps[i] = "validatePublicKey"
               /\ LastCall.steps[j] = "fromJsonWebKey"

\* An already-parsed key lacking y: no required-field check of getKeyProto_, the
\* rejection is validatePublicKey's.
C19_Witness ==
  /\ IsGetPrimitive
  /\ ArgPrimitiveType = "PublicKeyVerify"
  /\ ArgKey.kind = "PbEcdsaPublicKey"
  /\ ArgKey.version = 0
  /\ ArgKey.params = "valid" /\ ArgKey.x /\ ~ArgKey.y
  /\ LastCall.steps = <<"primitiveType", "validatePublicKey">>
  /\ LastCall.err = "InvalidKey"

\* What a call on the full signature gets from the raw entries alone: the keys
\* of the ENABLED raw entries in insertion order, up to and including the first
\* that accepts.  Nothing here looks at the entries under any prefix.
RECURSIVE UpToFirstAccept(_, _, _)
UpToFirstAccept(keys, s, d) ==
  IF keys = <<>> THEN <<>>
  ELSE IF PrimVerify(Head(keys), s, d) = "true" THEN <<Head(keys)>>
  ELSE <<Head(keys)>> \o UpToFirstAccept(Tail(keys), s, d)

RawOnlyTrace(c) ==
  LET raws == SelectSeq(primitiveSet,
                        LAMBDA en : en.prefix = <<>> /\ en.status = "ENABLED")
  IN UpToFirstAccept([i \in 1..Len(raws) |-> raws[i].key], FullSig(c),
                     dataIn[c].bytes)

InvokedKeys(c) == [n \in 1..Len(log[c]) |-> primitiveSet[log[c][n].e].key]

\* C16: for a byte-array signature longer than the prefix whose prefix group holds
\* no ENABLED entry -- none at all, or DISABLED / DESTROYED ones only -- no
\* prefixed primitive is invoked, and the invocations and the boolean are those
\* the raw entries alone determine: the ENABLED raw entries in order on the full
\* signature up to the first acceptor, true iff one accepts.  The two cases are
\* thus handled alike.
C16_DisabledPrefixLikeNoPrefix ==
  \A c \in Callers :
    (/\ pc[c] # "idle" /\ WellTyped(c) /\ LongSig(c)
     /\ \A e \in PrefixGroup(c) : ~EntryEnabled(e))
    => /\ \A n \in 1..Len(log[c]) :
            /\ log[c][n].phase = 2
            /\ log[c][n].sig = FullSig(c)
            /\ log[c][n].data = dataIn[c].bytes
       /\ IsPrefixOf(InvokedKeys(c), RawOnlyTrace(c))
       /\ Finished(c) =>
            /\ InvokedKeys(c) = RawOnlyTrace(c)
            /\ lookups[c] = <<[kind |-> "prefix", id |-> PrefixOfSig(c)],
                              [kind |-> "raw", id |-> <<>>]>>
            /\ result[c] = IF \E n \in 1..Len(RawOnlyTrace(c)) :
                                PrimVerify(RawOnlyTrace(c)[n], FullSig(c),
                                           dataIn[c].bytes) = "true"
                           THEN "true" ELSE "false"

\* The prefix group holds a non-ENABLED entry whose key would accept the
\* remainder, and nothing else; an ENABLED raw entry was tried; verify said false.
C16_Witness ==
  \E c \in Callers :
    /\ Finished(c) /\ WellTyped(c) /\ LongSig(c)
    /\ PrefixGroup(c) # {}
    /\ \A e \in PrefixGroup(c) :
         /\ ~EntryEnabled(e)
         /\ WouldAccept(e, RestOfSig(c), dataIn[c].bytes)
    /\ Len(log[c]) > 0
    /\ result[c] = "false"

\* The number of invocations one call may make: the ENABLED entries of the
\* matched prefix group plus the ENABLED raw entries.
InvocationBudget(c) ==
  Cardinality({e \in 1..Len(primitiveSet) :
                 /\ EntryEnabled(e)
                 /\ \/ primitiveSet[e].prefix = <<>>
                    \/ LongSig(c) /\ primitiveSet[e].prefix = PrefixOfSig(c)})

InFlight(c) == pc[c] \notin {"idle", "done"}

\* C17: in one verify call no entry's primitive is invoked twice and the
\* invocations number at most the ENABLED entries of the matched prefix group
\* plus the ENABLED raw entries; and, every lookup and invocation resolving, a
\* call in flight completes with a boolean.
C17_BoundedAndTerminates ==
  /\ [](\A c \in Callers :
          /\ \A m, n \in 1..Len(log[c]) : m # n => log[c][m].e # log[c][n].e
          /\ Len(log[c]) <= InvocationBudget(c))
  /\ InFlight(1) ~> (Finished(1) /\ result[1] \in {"true", "false"})

\* A call that invoked every entry it could, two of them, and completed.
C17_Witness ==
  \E c \in Callers :
    /\ Finished(c)
    /\ Len(log[c]) = 2
    /\ Len(log[c]) = InvocationBudget(c)
    /\ \E n \in 1..2 : log[c][n].phase = 1
    /\ result[c] \in {"true", "false"}

\* C13: wrap fails exactly when it is given null or undefined for the set; given
\* a set (an empty one included) it succeeds and the wrapped primitive holds that
\* very set; the wrap makes no lookup and invokes no primitive -- until verify is
\* called nothing has been looked up or invoked.
C13_WrapNullCheck ==
  /\ wrapped.state = "failed" <=>
       (wrapped.state # "none" /\ wrapped.arg.kind \in {"null", "undefined"})
  /\ wrapped.state = "failed" => Callers = {}
  /\ wrapped.state = "ok" =>
       /\ wrapped.arg.kind = "set"
       /\ primitiveSet = wrapped.arg.entries
       /\ Callers # {}
       /\ \A c \in Callers :
            pc[c] = "idle" => log[c] = <<>> /\ lookups[c] = <<>>

\* wrap(undefined) failed.
C13_Witness ==
  /\ wrapped.state = "failed"
  /\ wrapped.arg.kind = "undefined"

\* What a verify call makes of its own arguments and the set, computed with no
\* reference to any other call: the invocations over TryOrder up to the first
\* acceptor, and how the call settles.
SoloInvocation(c, e) ==
  LET raw == primitiveSet[e].prefix = <<>>
      s   == IF raw THEN FullSig(c) ELSE RestOfSig(c)
  IN [e     |-> e,
      sig   |-> s,
      data  |-> dataIn[c].bytes,
      phase |-> IF raw THEN 2 ELSE 1,
      out   |-> PrimVerify(primitiveSet[e].key, s, dataIn[c].bytes)]

SoloTrace(c) ==
  IF ~WellTyped(c) THEN <<>>
  ELSE LET order == TryOrder(c)
           all   == [n \in 1..Len(order) |-> SoloInvocation(c, order[n])]
           hits  == {n \in 1..Len(all) : all[n].out = "true"}
       IN IF hits = {} THEN all
          ELSE SubSeq(all, 1, CHOOSE n \in hits : \A m \in hits : n <= m)

SoloResult(c) ==
  IF ~WellTyped(c) THEN "throw"
  ELSE IF \E n \in 1..Len(SoloTrace(c)) : SoloTrace(c)[n].out = "true" THEN "true"
  ELSE "false"

\* C14: verify leaves the primitive set as it was wrapped, and each of several
\* calls in progress at once, however their steps interleave, invokes the
\* candidates and settles as its own arguments determine -- as it does alone.
C14_ConcurrentCallsIndependent ==
  /\ primitiveSet = wrapped.arg.entries
  /\ \A c \in Callers :
       pc[c] # "idle" =>
         /\ Len(log[c]) <= Len(SoloTrace(c))
         /\ \A n \in 1..Len(log[c]) :
              \/ log[c][n] = SoloTrace(c)[n]
              \/ /\ n = Len(log[c]) /\ pc[c] = "awaitPrimitive"
                 /\ log[c][n] = [SoloTrace(c)[n] EXCEPT !.out = "pending"]
         /\ Finished(c) =>
              /\ log[c] = SoloTrace(c)
              /\ result[c] = SoloResult(c)

\* Two calls with different signatures, both suspended on a candidate at once,
\* one of them on its second.
C14_Witness ==
  /\ Callers = {1, 2}
  /\ pc[1] = "awaitPrimitive" /\ pc[2] = "awaitPrimitive"
  /\ sigIn[1] # sigIn[2]
  /\ dataIn[1] # dataIn[2]
  /\ Len(log[1]) = 2
  /\ Len(log[2]) = 1

====
